---------------------------- MODULE Spec2Model ----------------------------
(***************************************************************************)
(* The state store of matrix_sdk_base (src/matrix_sdk_base/src/store.rs):  *)
(* twelve sled trees, the StateChanges batch, the save_changes transaction *)
(* with its membership index maintenance, the filter cache and the reads.  *)
(*                                                                         *)
(* Strings are sequences of one-character strings, so that format!'s       *)
(* concatenation and sled's scan_prefix are computed, not assumed.         *)
(* An Option is <<>> (None) or <<x>> (Some(x)).                            *)
(***************************************************************************)
EXTENDS Naturals, Sequences, FiniteSets, TLC

VARIABLES
    store,      \* the twelve trees of the Db, as readers see them
    pc,         \* where the save_changes caller is: idle, tx, flush, failed
    changes,    \* the StateChanges of the current (or most recent) call
    todo,       \* writes of the transaction closure not yet executed
    staged,     \* writes the closure has executed, pending in the transaction
    calls,      \* number of mutating calls started so far
    pre,        \* history: the trees without the writes of the current call
    last,       \* history: the value most recently committed per logical key
    retry,      \* history: the current call repeats a call that failed
    repeat,     \* history: the current call repeats the call committed before
    rdfail,     \* a read has panicked (an unwrap on a value it cannot decode)
    disk,       \* what the engine has flushed: the trees and their log position
    seq,        \* the log position of the trees: the commits applied to them
    ret,        \* history: the batch and log position of the last call that returned
    w2,         \* a second save_changes caller, on a cloned handle
    serial,     \* history: the committed batches applied one after another
    iter,       \* a stream returned by get_joined/get_invited_user_ids
    batch,      \* a StateChanges being filled by the add_* methods
    added,      \* history: the event last added to `batch` per logical key
    filt        \* history: the id last saved per filter name

durVars == <<disk, seq, ret>>

concVars == <<w2, serial>>

batchVars == <<batch, added>>

vars ==
    <<store, pc, changes, todo, staged, calls, pre, last, retry, repeat, rdfail,
      disk, seq, ret, w2, serial, iter, batch, added, filt>>

----------------------------------------------------------------------------
(* Bounds *)

MaxCalls == 2

----------------------------------------------------------------------------
(* Identifiers and strings *)

None == <<>>

Some(x) == <<x>>

IsPrefix(p, s) == Len(p) <= Len(s) /\ SubSeq(s, 1, Len(p)) = p

\* RoomId: "!a:b" and "!a:bc", two valid room ids, one a prefix of the other.
R1 == <<"!", "a", ":", "b">>

R2 == <<"!", "a", ":", "b", "c">>

Rooms == {R1, R2}

\* UserId: "@u:s" and "@v:s".
U1 == <<"@", "u", ":", "s">>

U2 == <<"@", "v", ":", "s">>

Users == {U1, U2}

\* UserId::try_from accepts a string with the sigil and a server name.
IsUserId(s) == Len(s) > 0 /\ s[1] = "@" /\ \E i \in 1..Len(s) : s[i] = ":"

\* Event types (EventType::Custom allows any string) and state keys.
TypeT == <<"t">>

TypeTK == <<"t", "k">>

TypeCT == <<"c", "t">>

EventTypes == {TypeT, TypeTK, TypeCT}

KeyEmpty == <<>>

KeyK == <<"k">>

StateKeys == {KeyEmpty, KeyK}

Memberships == {"join", "invite", "leave", "ban", "knock"}


----------------------------------------------------------------------------
(* Domain values.  A record stands for the Rust struct of the same name.   *)

D1 == <<"D">>

Tok1 == <<"T", "1">>

Tok2 == <<"T", "2">>

Session1 == [user_id |-> U1, device_id |-> D1, access_token |-> Tok1]

Session2 == [user_id |-> U1, device_id |-> D1, access_token |-> Tok2]

Sessions == {Session1, Session2}

Ev1 == <<"$", "1">>

Ev2 == <<"$", "2">>

\* MemberEvent { content: { membership }, event_id, state_key, .. }
MemberEvent(user, membership, id) ==
    [state_key |-> user, membership |-> membership, event_id |-> id]

\* AnySyncStateEvent / AnyStrippedStateEvent: type, state key and content.
StateEvent(type, key, content) ==
    [type |-> type, state_key |-> key, content |-> content]

\* AnyBasicEvent: type and content.
BasicEvent(type, content) == [type |-> type, content |-> content]

\* PresenceEvent { sender, content: { presence } }
PresenceEv(sender, presence) == [sender |-> sender, presence |-> presence]

\* RoomInfo { room_id, .. }
RoomInfo(room, name) == [room_id |-> room, name |-> name]

----------------------------------------------------------------------------
(* serde_json::to_vec and serde_json::from_slice.  A JSON object is the    *)
(* sequence of its <<field, value>> pairs; decoding checks the fields and  *)
(* answers None for bytes that are not an object of the expected type      *)
(* (the caller unwraps, and panics on None).                               *)

ToVecSession(s) ==
    << <<"user_id", s.user_id>>, <<"device_id", s.device_id>>,
       <<"access_token", s.access_token>> >>

FromSliceSession(b) ==
    IF Len(b) = 3 /\ b[1][1] = "user_id" /\ b[2][1] = "device_id"
                  /\ b[3][1] = "access_token"
    THEN Some([user_id |-> b[1][2], device_id |-> b[2][2],
               access_token |-> b[3][2]])
    ELSE None

ToVecMember(e) ==
    << <<"content", << <<"membership", e.membership>> >> >>,
       <<"event_id", e.event_id>>, <<"state_key", e.state_key>>,
       <<"type", "m.room.member">> >>

FromSliceMember(b) ==
    IF Len(b) = 4 /\ b[1][1] = "content" /\ b[2][1] = "event_id"
                  /\ b[3][1] = "state_key" /\ b[4][2] = "m.room.member"
                  /\ b[1][2][1][2] \in Memberships
    THEN Some([state_key |-> b[3][2], membership |-> b[1][2][1][2],
               event_id |-> b[2][2]])
    ELSE None

ToVecState(e) ==
    << <<"content", e.content>>, <<"state_key", e.state_key>>,
       <<"type", e.type>> >>

FromSliceState(b) ==
    IF Len(b) = 3 /\ b[1][1] = "content" /\ b[2][1] = "state_key"
                  /\ b[3][1] = "type"
    THEN Some([type |-> b[3][2], state_key |-> b[2][2], content |-> b[1][2]])
    ELSE None

ToVecBasic(e) == << <<"content", e.content>>, <<"type", e.type>> >>

ToVecPresence(e) ==
    << <<"content", << <<"presence", e.presence>> >> >>,
       <<"sender", e.sender>>, <<"type", "m.presence">> >>

FromSlicePresence(b) ==
    IF Len(b) = 3 /\ b[1][1] = "content" /\ b[2][1] = "sender"
                  /\ b[3][2] = "m.presence"
    THEN Some([sender |-> b[2][2], presence |-> b[1][2][1][2]])
    ELSE None

ToVecRoomInfo(i) == << <<"room_id", i.room_id>>, <<"name", i.name>> >>

FromSliceRoomInfo(b) ==
    IF Len(b) = 2 /\ b[1][1] = "room_id" /\ b[2][1] = "name"
    THEN Some([room_id |-> b[1][2], name |-> b[2][2]])
    ELSE None

\* String::from_utf8_lossy(..).to_string() then UserId::try_from
UserIdFromBytes(b) == IF IsUserId(b) THEN Some(b) ELSE None

----------------------------------------------------------------------------
(* sled trees: a tree is a function from the keys it holds to their values *)

EmptyTree == [k \in {} |-> <<>>]

TreeNames ==
    {"session", "account_data", "members", "joined_user_ids",
     "invited_user_ids", "room_info", "room_state", "room_account_data",
     "stripped_room_info", "stripped_room_state", "stripped_members",
     "presence"}

\* Store::open_helper: every tree of a fresh Db is empty.
EmptyStore == [t \in TreeNames |-> EmptyTree]

TreeInsert(t, k, v) ==
    [x \in (DOMAIN t) \cup {k} |-> IF x = k THEN v ELSE t[x]]

TreeRemove(t, k) == [x \in (DOMAIN t) \ {k} |-> t[x]]

TreeGet(t, k) == IF k \in DOMAIN t THEN Some(t[k]) ELSE None

\* Tree::scan_prefix: the keys that start with the prefix.
ScanPrefix(t, prefix) == {k \in DOMAIN t : IsPrefix(prefix, k)}

\* One write of a transaction: an insert or a remove on one tree.
Ins(tree, key, val) == [tree |-> tree, kind |-> "insert", key |-> key, val |-> val]

Rem(tree, key) == [tree |-> tree, kind |-> "remove", key |-> key, val |-> <<>>]

ApplyOp(st, op) ==
    [st EXCEPT ![op.tree] =
        IF op.kind = "insert" THEN TreeInsert(@, op.key, op.val)
        ELSE TreeRemove(@, op.key)]

RECURSIVE ApplyBatch(_, _)
ApplyBatch(st, ops) ==
    IF Len(ops) = 0 THEN st ELSE ApplyBatch(ApplyOp(st, Head(ops)), Tail(ops))

----------------------------------------------------------------------------
(* StateChanges.  Each BTreeMap is the sequence of its entries in the      *)
(* map's iteration order (nested maps flattened, outer key first).         *)

\* StateChanges::default()
DefaultChanges ==
    [session |-> None, account_data |-> <<>>, presence |-> <<>>,
     members |-> <<>>, state |-> <<>>, room_account_data |-> <<>>,
     room_infos |-> <<>>, stripped_state |-> <<>>, stripped_members |-> <<>>,
     invited_room_info |-> <<>>]

\* impl From<Session> for StateChanges
FromSession(s) == [DefaultChanges EXCEPT !.session = Some(s)]

MemberEntry(room, e) == [room |-> room, user |-> e.state_key, event |-> e]

StateEntry(room, e) ==
    [room |-> room, event_type |-> e.type, state_key |-> e.state_key, event |-> e]

RoomDataEntry(room, e) == [room |-> room, event_type |-> e.type, event |-> e]

----------------------------------------------------------------------------
(* The writes of the save_changes transaction closure, in program order.   *)

SessionKey == <<"s", "e", "s", "s", "i", "o", "n">>

\* Mutant: the session is written under a misspelt key.
SessionOpsWrongKey(c) ==
    IF c.session = None THEN <<>>
    ELSE <<Ins("session", SessionKey \o <<"s">>, ToVecSession(c.session[1]))>>

\* Mutant: the time of the call (`now`) is stored with the session.
SessionOpsStamped(c) ==
    IF c.session = None THEN <<>>
    ELSE <<Ins("session", SessionKey,
               Append(ToVecSession(c.session[1]), <<"saved_at", calls>>))>>

\* if let Some(s) = &changes.session { session.insert("session", ..) }
SessionOps(c) ==
    IF c.session = None THEN <<>>
    ELSE <<Ins("session", SessionKey, ToVecSession(c.session[1]))>>

\* format!("{}{}", room.as_str(), event.state_key.as_str())
MemberKey(room, user) == room \o user

\* Mutant: the Join and Invite arms forget to remove the pair from the
\* other index.
MemberEntryOpsNoRemove(e) ==
    LET key == MemberKey(e.room, e.event.state_key)
        idx == CASE e.event.membership = "join" ->
                      <<Ins("joined_user_ids", key, e.event.state_key)>>
                 [] e.event.membership = "invite" ->
                      <<Ins("invited_user_ids", key, e.event.state_key)>>
                 [] OTHER ->
                      <<Rem("joined_user_ids", key),
                        Rem("invited_user_ids", key)>>
    IN  idx \o <<Ins("members", key, ToVecMember(e.event))>>

\* Mutant: the member upsert sits inside the Join and Invite arms only.
MemberEntryOpsUpsertInArms(e) ==
    LET key == MemberKey(e.room, e.event.state_key)
    IN  CASE e.event.membership = "join" ->
               <<Ins("joined_user_ids", key, e.event.state_key),
                 Rem("invited_user_ids", key),
                 Ins("members", key, ToVecMember(e.event))>>
          [] e.event.membership = "invite" ->
               <<Ins("invited_user_ids", key, e.event.state_key),
                 Rem("joined_user_ids", key),
                 Ins("members", key, ToVecMember(e.event))>>
          [] OTHER ->
               <<Rem("joined_user_ids", key), Rem("invited_user_ids", key)>>

\* The body of the loop over changes.members for one event: the index
\* edits chosen by the membership, then the unconditional member upsert.
MemberEntryOps(e) ==
    LET key == MemberKey(e.room, e.event.state_key)
        idx == CASE e.event.membership = "join" ->
                      <<Ins("joined_user_ids", key, e.event.state_key),
                        Rem("invited_user_ids", key)>>
                 [] e.event.membership = "invite" ->
                      <<Ins("invited_user_ids", key, e.event.state_key),
                        Rem("joined_user_ids", key)>>
                 [] OTHER ->
                      <<Rem("joined_user_ids", key),
                        Rem("invited_user_ids", key)>>
    IN  idx \o <<Ins("members", key, ToVecMember(e.event))>>

RECURSIVE MemberOps(_)
MemberOps(es) ==
    IF Len(es) = 0 THEN <<>>
    ELSE MemberEntryOps(Head(es)) \o MemberOps(Tail(es))

RECURSIVE AccountDataOps(_)
AccountDataOps(es) ==
    IF Len(es) = 0 THEN <<>>
    ELSE <<Ins("account_data", Head(es).event_type, ToVecBasic(Head(es).event))>>
         \o AccountDataOps(Tail(es))

\* format!("{}{}", room.as_str(), event_type)
RoomDataKey(room, event_type) == room \o event_type

RECURSIVE RoomAccountDataOps(_)
RoomAccountDataOps(es) ==
    IF Len(es) = 0 THEN <<>>
    ELSE <<Ins("room_account_data",
               RoomDataKey(Head(es).room, Head(es).event_type),
               ToVecBasic(Head(es).event))>>
         \o RoomAccountDataOps(Tail(es))

\* format!("{}{}{}", room.as_str(), event.content().event_type(), event.state_key())
StateKey(room, event_type, state_key) == room \o event_type \o state_key

RECURSIVE StateOps(_, _)
StateOps(tree, es) ==
    IF Len(es) = 0 THEN <<>>
    ELSE <<Ins(tree,
               StateKey(Head(es).room, Head(es).event.type, Head(es).event.state_key),
               ToVecState(Head(es).event))>>
         \o StateOps(tree, Tail(es))

RECURSIVE RoomInfoOps(_, _)
RoomInfoOps(tree, es) ==
    IF Len(es) = 0 THEN <<>>
    ELSE <<Ins(tree, Head(es).room_id, ToVecRoomInfo(Head(es)))>>
         \o RoomInfoOps(tree, Tail(es))

RECURSIVE PresenceOps(_)
PresenceOps(es) ==
    IF Len(es) = 0 THEN <<>>
    ELSE <<Ins("presence", Head(es).sender, ToVecPresence(Head(es)))>>
         \o PresenceOps(Tail(es))

\* Mutant: stripped members are stored like members, indices included.
StrippedMemberOpsAsMembers(es) == MemberOps(es)
RECURSIVE StrippedMemberOps(_)
StrippedMemberOps(es) ==
    IF Len(es) = 0 THEN <<>>
    ELSE <<Ins("stripped_members",
               MemberKey(Head(es).room, Head(es).event.state_key),
               ToVecMember(Head(es).event))>>
         \o StrippedMemberOps(Tail(es))

\* The whole closure: session, members and indices, account data, room
\* account data, state, summaries, presence, then the stripped variants.
Ops(c) ==
    SessionOps(c) \o MemberOps(c.members) \o AccountDataOps(c.account_data)
    \o RoomAccountDataOps(c.room_account_data) \o StateOps("room_state", c.state)
    \o RoomInfoOps("room_info", c.room_infos) \o PresenceOps(c.presence)
    \o RoomInfoOps("stripped_room_info", c.invited_room_info)
    \o StrippedMemberOps(c.stripped_members)
    \o StateOps("stripped_room_state", c.stripped_state)

----------------------------------------------------------------------------
(* The batches the callers hand to save_changes *)

Body1 == <<"x">>

Body2 == <<"y">>

WithMembers(es) == [DefaultChanges EXCEPT !.members = es]

WithState(es) == [DefaultChanges EXCEPT !.state = es]

SingleMemberChanges ==
    {WithMembers(<<MemberEntry(r, MemberEvent(U1, m, Ev1))>>) :
        r \in Rooms, m \in Memberships}
    \cup {WithMembers(<<MemberEntry(R1, MemberEvent(U2, "join", Ev1))>>),
          WithMembers(<<MemberEntry(R1, MemberEvent(U1, "join", Ev2))>>)}

\* Two members in one batch: U1 joined in R1 and invited in R2; U1 leaving
\* R1 while U2 is invited to it.
PairMemberChanges ==
    {WithMembers(<<MemberEntry(R1, MemberEvent(U1, "join", Ev1)),
                   MemberEntry(R2, MemberEvent(U1, "invite", Ev1))>>),
     WithMembers(<<MemberEntry(R1, MemberEvent(U1, "leave", Ev2)),
                   MemberEntry(R1, MemberEvent(U2, "invite", Ev1))>>)}

StateChangesSet ==
    {WithState(<<StateEntry(R1, StateEvent(TypeT, KeyK, Body1))>>),
     WithState(<<StateEntry(R1, StateEvent(TypeTK, KeyEmpty, Body2))>>),
     WithState(<<StateEntry(R2, StateEvent(TypeT, KeyEmpty, Body1))>>)}

OtherChanges ==
    {[DefaultChanges EXCEPT !.room_account_data =
          <<RoomDataEntry(R1, BasicEvent(TypeCT, Body1))>>],
     [DefaultChanges EXCEPT !.room_account_data =
          <<RoomDataEntry(R2, BasicEvent(TypeT, Body2))>>],
     [DefaultChanges EXCEPT !.account_data =
          <<[event_type |-> TypeT, event |-> BasicEvent(TypeT, Body1)]>>],
     [DefaultChanges EXCEPT !.presence = <<PresenceEv(U1, "online")>>],
     [DefaultChanges EXCEPT !.presence = <<PresenceEv(U1, "offline")>>],
     [DefaultChanges EXCEPT !.room_infos = <<RoomInfo(R1, Body1)>>],
     [DefaultChanges EXCEPT !.invited_room_info = <<RoomInfo(R2, Body1)>>],
     [DefaultChanges EXCEPT !.stripped_members =
          <<MemberEntry(R2, MemberEvent(U1, "invite", Ev1))>>],
     [DefaultChanges EXCEPT !.stripped_state =
          <<StateEntry(R2, StateEvent(TypeT, KeyEmpty, Body1))>>]}

\* One sync response touching several regions at once.
MixedChanges ==
    {[DefaultChanges EXCEPT
          !.session = Some(Session1),
          !.members = <<MemberEntry(R1, MemberEvent(U2, "invite", Ev2))>>,
          !.state = <<StateEntry(R1, StateEvent(TypeT, KeyEmpty, Body2))>>,
          !.presence = <<PresenceEv(U2, "online")>>]}

ChangeSets ==
    {DefaultChanges} \cup {FromSession(s) : s \in Sessions}
    \cup SingleMemberChanges \cup PairMemberChanges \cup StateChangesSet
    \cup OtherChanges \cup MixedChanges

----------------------------------------------------------------------------
(* The filter cache *)

FilterPrefix == <<"f", "i", "l", "t", "e", "r">>

\* Mutant: the filter name is the key, with no "filter" in front.
FilterKeyBare(name) == name
\* Mutant: every filter is stored under the one key "filter".
FilterKeyNoName(name) == FilterPrefix

\* format!("filter{}", filter_name)
FilterKey(name) == FilterPrefix \o name

FilterNames == {SessionKey}

FilterIds == {<<"F">>}

\* A byte that is not part of any UTF-8 sequence, and U+FFFD.
InvalidByte == "<ff>"

Replacement == "<fffd>"

\* String::from_utf8_lossy: every invalid byte becomes U+FFFD.
FromUtf8Lossy(b) ==
    [i \in 1..Len(b) |-> IF b[i] = InvalidByte THEN Replacement ELSE b[i]]

\* Store::get_filter
get_filter(st, name) ==
    LET v == TreeGet(st.session, FilterKey(name))
    IN  IF v = None THEN None ELSE Some(FromUtf8Lossy(v[1]))

----------------------------------------------------------------------------
(* Reads.  Each answers an Option (or a set of user ids); the *_panics     *)
(* predicates say when the unwrap on the decoded value panics.             *)

\* Store::get_session
get_session(st) ==
    IF SessionKey \in DOMAIN st.session
    THEN FromSliceSession(st.session[SessionKey]) ELSE None

get_session_panics(st) ==
    SessionKey \in DOMAIN st.session
    /\ FromSliceSession(st.session[SessionKey]) = None

\* Store::get_presence_event
get_presence_event(st, user) ==
    IF user \in DOMAIN st.presence
    THEN FromSlicePresence(st.presence[user]) ELSE None

get_presence_event_panics(st, user) ==
    user \in DOMAIN st.presence /\ FromSlicePresence(st.presence[user]) = None

\* Store::get_state_event
get_state_event(st, room, event_type, state_key) ==
    LET key == StateKey(room, event_type, state_key)
    IN  IF key \in DOMAIN st.room_state
        THEN FromSliceState(st.room_state[key]) ELSE None

get_state_event_panics(st, room, event_type, state_key) ==
    LET key == StateKey(room, event_type, state_key)
    IN  key \in DOMAIN st.room_state /\ FromSliceState(st.room_state[key]) = None

\* Store::get_member_event
get_member_event(st, room, user) ==
    LET key == MemberKey(room, user)
    IN  IF key \in DOMAIN st.members
        THEN FromSliceMember(st.members[key]) ELSE None

get_member_event_panics(st, room, user) ==
    LET key == MemberKey(room, user)
    IN  key \in DOMAIN st.members /\ FromSliceMember(st.members[key]) = None

\* The user ids a scan of an index tree under the room's prefix yields.
UserIdsUnder(tree, room) ==
    {tree[k] : k \in {x \in ScanPrefix(tree, room) : IsUserId(tree[x])}}

\* Store::get_joined_user_ids
get_joined_user_ids(st, room) == UserIdsUnder(st.joined_user_ids, room)

\* Store::get_invited_user_ids
get_invited_user_ids(st, room) == UserIdsUnder(st.invited_user_ids, room)

user_ids_panics(tree, room) ==
    \E k \in ScanPrefix(tree, room) : UserIdFromBytes(tree[k]) = None

\* Store::get_room_infos
get_room_infos(st) ==
    {FromSliceRoomInfo(st.room_info[k])[1] :
        k \in {x \in DOMAIN st.room_info : FromSliceRoomInfo(st.room_info[x]) # None}}

get_room_infos_panics(st) ==
    \E k \in DOMAIN st.room_info : FromSliceRoomInfo(st.room_info[k]) = None

\* The reads a holder of the handle may issue: <<kind, room, user, event
\* type, state key>>, the arguments a kind does not take held fixed.
ReadRequests ==
    {<<"get_session", R1, U1, TypeT, KeyEmpty>>,
     <<"get_room_infos", R1, U1, TypeT, KeyEmpty>>}
    \cup {<<"get_presence_event", R1, u, TypeT, KeyEmpty>> : u \in Users}
    \cup {<<"get_state_event", r, U1, t, k>> :
              r \in Rooms, t \in EventTypes, k \in StateKeys}
    \cup {<<"get_member_event", r, u, TypeT, KeyEmpty>> : r \in Rooms, u \in Users}
    \cup {<<"get_joined_user_ids", r, U1, TypeT, KeyEmpty>> : r \in Rooms}
    \cup {<<"get_invited_user_ids", r, U1, TypeT, KeyEmpty>> : r \in Rooms}

\* Whether the read of the given kind panics for the given arguments.
ReadPanics(st, kind, room, user, event_type, state_key) ==
    CASE kind = "get_session" -> get_session_panics(st)
      [] kind = "get_presence_event" -> get_presence_event_panics(st, user)
      [] kind = "get_state_event" ->
             get_state_event_panics(st, room, event_type, state_key)
      [] kind = "get_member_event" -> get_member_event_panics(st, room, user)
      [] kind = "get_joined_user_ids" -> user_ids_panics(st.joined_user_ids, room)
      [] kind = "get_invited_user_ids" -> user_ids_panics(st.invited_user_ids, room)
      [] kind = "get_room_infos" -> get_room_infos_panics(st)

----------------------------------------------------------------------------
(* History: the value most recently committed for each logical key         *)

MemberIds == Rooms \X Users

StateIds == Rooms \X EventTypes \X StateKeys

EmptyLast ==
    [session |-> None,
     members |-> [p \in MemberIds |-> None],
     state |-> [p \in StateIds |-> None],
     presence |-> [u \in Users |-> None]]

\* The greatest of a set of positions in a batch's map, 0 if there is none:
\* inserting under a key already in a BTreeMap replaces the entry.
LastIndex(hits) ==
    IF hits = {} THEN 0 ELSE CHOOSE i \in hits : \A j \in hits : j <= i

UpdateLast(l, c) ==
    [session |-> IF c.session = None THEN l.session ELSE c.session,
     members |->
        [p \in MemberIds |->
            LET i == LastIndex({j \in 1..Len(c.members) :
                         /\ c.members[j].room = p[1]
                         /\ c.members[j].event.state_key = p[2]})
            IN  IF i = 0 THEN l.members[p] ELSE Some(c.members[i].event)],
     state |->
        [p \in StateIds |->
            LET i == LastIndex({j \in 1..Len(c.state) :
                         /\ c.state[j].room = p[1]
                         /\ c.state[j].event.type = p[2]
                         /\ c.state[j].event.state_key = p[3]})
            IN  IF i = 0 THEN l.state[p] ELSE Some(c.state[i].event)],
     presence |->
        [u \in Users |->
            LET i == LastIndex({j \in 1..Len(c.presence) : c.presence[j].sender = u})
            IN  IF i = 0 THEN l.presence[u] ELSE Some(c.presence[i])]]

----------------------------------------------------------------------------
(* The sled transaction *)

\* Mutant: the write goes to the tree itself, as Tree::insert outside a
\* transaction does.
DirectWrite(st, sg, op) == [store |-> ApplyOp(st, op), staged |-> sg]

\* A write inside the closure goes to the transaction's pending batch; the
\* trees are untouched until the commit.
TransactionalWrite(st, sg, op) == [store |-> st, staged |-> Append(sg, op)]

\* Mutant: the writes made before the failure are kept.
AbortKeepingWrites(st, sg) == ApplyBatch(st, sg)

\* A write that fails aborts the transaction: the pending batch is dropped.
Abort(st, sg) == st

\* The commit applies the whole pending batch to the trees at once.
Commit(st, sg) == ApplyBatch(st, sg)

\* Mutant: save_changes returns without waiting for the flush.
NotFlushed(st, n, dk) == dk

\* Db::flush_async: everything applied to the trees so far is on disk.
Flushed(st, n, dk) == [dk EXCEPT !.trees = st, !.seq = n]

\* A caller that is not inside save_changes.
IdleCaller == [pc |-> "idle", changes |-> DefaultChanges, todo |-> <<>>, staged |-> <<>>]

\* No stream is open.  A stream is sled's Iter under stream::iter: the tree
\* and the prefix it scans, the last key it returned (lo), the leaf node it
\* cached on its last read, and whether it has returned None.  `yielded` and
\* `views` record the user ids it has yielded and what the query would have
\* yielded in each committed state since it was created.
NoIter ==
    [open |-> FALSE, tree |-> "invited_user_ids", room |-> <<>>, lo |-> None,
     cache |-> EmptyTree, done |-> FALSE, yielded |-> {}, views |-> {}]

\* A commit while a stream is being consumed: one more committed state.
Observed(it, st) ==
    IF it.open /\ ~it.done
    THEN [it EXCEPT !.views = @ \cup {UserIdsUnder(st[it.tree], it.room)}]
    ELSE it

EmptyAdded == <<>>

AllFilterNames == {<<>>, SessionKey}

----------------------------------------------------------------------------
(* Actions *)

\* Store::open_helper on a fresh Db.  A temporary Db leaves nothing a reopen
\* could read: its log position and flushed image are not followed.
Opened(temporary) ==
    /\ store = EmptyStore
    /\ pc = "idle"
    /\ changes = DefaultChanges
    /\ todo = <<>>
    /\ staged = <<>>
    /\ calls = 0
    /\ pre = EmptyStore
    /\ last = EmptyLast
    /\ retry = FALSE
    /\ repeat = FALSE
    /\ rdfail = FALSE
    /\ disk = [temporary |-> temporary, trees |-> EmptyStore, seq |-> 0]
    /\ seq = 0
    /\ ret = [seq |-> 0, changes |-> None]
    /\ w2 = IdleCaller
    /\ serial = EmptyStore
    /\ iter = NoIter
    /\ batch = DefaultChanges
    /\ added = EmptyAdded
    /\ filt = [n \in AllFilterNames |-> None]

\* Store::open
Init == Opened(TRUE)

\* Store::open_with_path
InitWithPath == Opened(FALSE)

\* save_changes is called: the transaction starts and its closure is run.
\* A caller may call again after a call that panicked.
SaveChangesBegin(c) ==
    /\ pc \in {"idle", "failed"}
    /\ calls < MaxCalls
    /\ pc' = "tx"
    /\ changes' = c
    /\ todo' = Ops(c)
    /\ staged' = <<>>
    /\ calls' = calls + 1
    /\ retry' = (pc = "failed" /\ c = changes)
    /\ repeat' = (pc = "idle" /\ calls > 0 /\ c = changes)
    /\ pre' = IF pc = "failed" /\ c = changes THEN pre ELSE store
    /\ UNCHANGED <<store, last, rdfail, durVars, concVars, iter, batchVars, filt>>

\* The closure executes its next insert or remove.
TxWrite ==
    /\ pc = "tx"
    /\ Len(todo) > 0
    /\ LET r == TransactionalWrite(store, staged, Head(todo))
       IN  store' = r.store /\ staged' = r.staged
    /\ todo' = Tail(todo)
    /\ UNCHANGED <<pc, changes, calls, pre, last, retry, repeat, rdfail>>
    /\ UNCHANGED <<durVars, concVars, iter, batchVars, filt>>

\* The next insert or remove fails: `?` leaves the closure, the transaction
\* answers Err and ret.unwrap() panics.
TxFault ==
    /\ pc = "tx"
    /\ Len(todo) > 0
    /\ store' = Abort(store, staged)
    /\ staged' = <<>>
    /\ todo' = <<>>
    /\ pc' = "failed"
    /\ UNCHANGED <<changes, calls, pre, last, retry, repeat, rdfail>>
    /\ UNCHANGED <<durVars, concVars, iter, batchVars, filt>>

\* The closure answered Ok(()): the transaction commits.
TxCommit ==
    /\ pc = "tx"
    /\ Len(todo) = 0
    /\ store' = Commit(store, staged)
    /\ staged' = <<>>
    /\ last' = UpdateLast(last, changes)
    /\ pc' = "flush"
    /\ seq' = IF disk.temporary THEN seq ELSE seq + 1
    /\ serial' = ApplyBatch(serial, Ops(changes))
    /\ iter' = Observed(iter, Commit(store, staged))
    /\ UNCHANGED <<changes, todo, calls, pre, retry, repeat, rdfail>>
    /\ UNCHANGED <<disk, ret, w2, batchVars, filt>>

\* self.inner.flush_async().await, then save_changes returns.
Flush ==
    /\ pc = "flush"
    /\ disk' = IF disk.temporary THEN disk ELSE Flushed(store, seq, disk)
    /\ ret' = IF disk.temporary THEN ret ELSE [seq |-> seq, changes |-> Some(changes)]
    /\ pc' = "idle"
    /\ UNCHANGED <<store, changes, todo, staged, calls, pre, last, retry, repeat, rdfail>>
    /\ UNCHANGED <<seq, concVars, iter, batchVars, filt>>

\* save_filter: a plain insert on the session tree, outside any transaction.
SaveFilter(name, id) ==
    /\ store' = [store EXCEPT !.session = TreeInsert(@, FilterKey(name), id)]
    /\ pre' = [pre EXCEPT !.session = TreeInsert(@, FilterKey(name), id)]
    /\ serial' = [serial EXCEPT !.session = TreeInsert(@, FilterKey(name), id)]
    /\ filt' = [filt EXCEPT ![name] = Some(id)]
    /\ UNCHANGED <<pc, changes, todo, staged, calls, last, retry, repeat, rdfail>>
    /\ UNCHANGED <<durVars, w2, iter, batchVars>>

\* Any read, at any time, by any holder of a cloned handle.
Read(q) ==
    /\ rdfail' = (rdfail \/ ReadPanics(store, q[1], q[2], q[3], q[4], q[5]))
    /\ UNCHANGED <<store, pc, changes, todo, staged, calls, pre, last, retry, repeat>>
    /\ UNCHANGED <<durVars, concVars, iter, batchVars, filt>>

Next ==
    \/ \E c \in ChangeSets : SaveChangesBegin(c)
    \/ TxWrite
    \/ TxFault
    \/ TxCommit
    \/ Flush
    \/ \E n \in FilterNames, id \in FilterIds : SaveFilter(n, id)
    \/ \E q \in ReadRequests : Read(q)

Spec == Init /\ [][Next]_vars

----------------------------------------------------------------------------
(* Durability: a store opened with open_with_path, its engine's periodic   *)
(* flush, and a crash followed by a reopen.                                *)

\* The engine flushes on its own every few hundred milliseconds.
BackgroundFlush ==
    /\ ~disk.temporary
    /\ disk # [disk EXCEPT !.trees = store, !.seq = seq]
    /\ disk' = [disk EXCEPT !.trees = store, !.seq = seq]
    /\ UNCHANGED <<store, pc, changes, todo, staged, calls, pre, last, retry, repeat, rdfail>>
    /\ UNCHANGED <<seq, ret, concVars, iter, batchVars, filt>>

\* The process dies and the store is opened again: the trees are what was
\* flushed, a call in flight is gone with its pending batch.
Crash ==
    /\ store' = disk.trees
    /\ seq' = disk.seq
    /\ pc' = "idle"
    /\ changes' = DefaultChanges
    /\ todo' = <<>>
    /\ staged' = <<>>
    /\ pre' = disk.trees
    /\ serial' = disk.trees
    /\ retry' = FALSE
    /\ repeat' = FALSE
    /\ UNCHANGED <<calls, last, rdfail, disk, ret, w2, iter, batchVars, filt>>

DurableChangeSets ==
    MixedChanges \cup {FromSession(Session2)}
    \cup {WithMembers(<<MemberEntry(R1, MemberEvent(U1, "join", Ev1))>>),
          WithMembers(<<MemberEntry(R1, MemberEvent(U1, "leave", Ev2))>>),
          WithState(<<StateEntry(R1, StateEvent(TypeT, KeyK, Body1))>>)}

NextCrash ==
    \/ \E c \in DurableChangeSets : SaveChangesBegin(c)
    \/ TxWrite
    \/ TxCommit
    \/ Flush
    \/ BackgroundFlush
    \/ Crash
    \/ \E n \in FilterNames, id \in FilterIds : SaveFilter(n, id)

SpecCrash == InitWithPath /\ [][NextCrash]_vars

----------------------------------------------------------------------------
(* Two holders of cloned handles calling save_changes concurrently.        *)

\* Mutant: a transaction starts only when no other call is in progress, the
\* waiting ones included.
WaitsForOther(other) == other = "idle"

\* Mutant: the transaction takes no lock on its trees.
NoLock(other) == TRUE

\* A transaction write-locks its trees before the closure runs and holds the
\* locks until it returns: it starts only when no other transaction runs.
CanStage(other) == other # "tx"

\* The first caller calls save_changes.
SaveChangesCall(c) ==
    /\ pc = "idle"
    /\ calls < MaxCalls
    /\ pc' = "wait"
    /\ changes' = c
    /\ todo' = Ops(c)
    /\ staged' = <<>>
    /\ calls' = calls + 1
    /\ retry' = FALSE
    /\ repeat' = FALSE
    /\ UNCHANGED <<store, pre, last, rdfail, durVars, concVars, iter, batchVars, filt>>

\* The first caller's transaction gets the locks and its closure is run.
Stage ==
    /\ pc = "wait"
    /\ CanStage(w2.pc)
    /\ pc' = "tx"
    /\ pre' = store
    /\ UNCHANGED <<store, changes, todo, staged, calls, last, retry, repeat, rdfail>>
    /\ UNCHANGED <<durVars, concVars, iter, batchVars, filt>>

\* The second caller calls save_changes.
W2Call(c) ==
    /\ w2.pc = "idle"
    /\ calls < MaxCalls
    /\ w2' = [pc |-> "wait", changes |-> c, todo |-> Ops(c), staged |-> <<>>]
    /\ calls' = calls + 1
    /\ UNCHANGED <<store, pc, changes, todo, staged, pre, last, retry, repeat, rdfail>>
    /\ UNCHANGED <<durVars, serial, iter, batchVars, filt>>

W2Stage ==
    /\ w2.pc = "wait"
    /\ CanStage(pc)
    /\ w2' = [w2 EXCEPT !.pc = "tx"]
    /\ UNCHANGED <<store, pc, changes, todo, staged, calls, pre, last, retry, repeat, rdfail>>
    /\ UNCHANGED <<durVars, serial, iter, batchVars, filt>>

W2Write ==
    /\ w2.pc = "tx"
    /\ Len(w2.todo) > 0
    /\ LET r == TransactionalWrite(store, w2.staged, Head(w2.todo))
       IN  /\ store' = r.store
           /\ w2' = [w2 EXCEPT !.staged = r.staged, !.todo = Tail(w2.todo)]
    /\ UNCHANGED <<pc, changes, todo, staged, calls, pre, last, retry, repeat, rdfail>>
    /\ UNCHANGED <<durVars, serial, iter, batchVars, filt>>

W2Commit ==
    /\ w2.pc = "tx"
    /\ Len(w2.todo) = 0
    /\ store' = Commit(store, w2.staged)
    /\ w2' = [w2 EXCEPT !.staged = <<>>, !.pc = "flush"]
    /\ last' = UpdateLast(last, w2.changes)
    /\ seq' = IF disk.temporary THEN seq ELSE seq + 1
    /\ serial' = ApplyBatch(serial, Ops(w2.changes))
    /\ iter' = Observed(iter, Commit(store, w2.staged))
    /\ UNCHANGED <<pc, changes, todo, staged, calls, pre, retry, repeat, rdfail>>
    /\ UNCHANGED <<disk, ret, batchVars, filt>>

W2Flush ==
    /\ w2.pc = "flush"
    /\ disk' = IF disk.temporary THEN disk ELSE Flushed(store, seq, disk)
    /\ ret' = IF disk.temporary THEN ret ELSE [seq |-> seq, changes |-> Some(w2.changes)]
    /\ w2' = [w2 EXCEPT !.pc = "idle"]
    /\ UNCHANGED <<store, pc, changes, todo, staged, calls, pre, last, retry, repeat, rdfail>>
    /\ UNCHANGED <<seq, serial, iter, batchVars, filt>>

\* Batches that write the same keys with different values.
ConcChangeSets ==
    PairMemberChanges \cup MixedChanges
    \cup {WithMembers(<<MemberEntry(R1, MemberEvent(U1, "join", Ev1))>>),
          WithMembers(<<MemberEntry(R1, MemberEvent(U1, "invite", Ev2))>>)}

ConcReads ==
    {q \in ReadRequests : q[1] \in {"get_invited_user_ids", "get_member_event"}}

NextConc ==
    \/ \E c \in ConcChangeSets : SaveChangesCall(c)
    \/ Stage
    \/ TxWrite
    \/ TxCommit
    \/ Flush
    \/ \E c \in ConcChangeSets : W2Call(c)
    \/ W2Stage
    \/ W2Write
    \/ W2Commit
    \/ W2Flush
    \/ \E q \in ConcReads : Read(q)

SpecConc == Init /\ [][NextConc]_vars

\* The executor runs every task that can make a step, and a caller waiting
\* for the trees' locks gets them once they are free often enough.
Fairness ==
    /\ SF_vars(Stage) /\ WF_vars(TxWrite) /\ WF_vars(TxCommit) /\ WF_vars(Flush)
    /\ SF_vars(W2Stage) /\ WF_vars(W2Write) /\ WF_vars(W2Commit) /\ WF_vars(W2Flush)

SpecLive == Init /\ [][NextConc]_vars /\ Fairness

----------------------------------------------------------------------------
(* Building a Change Set with the add_* methods, then saving it.           *)

MaxAdds == 3

\* The characters of the identifiers in use, in byte order.
Alphabet == <<"!", ":", "@", "a", "b", "c", "k", "s", "t", "u", "v">>

Rank(ch) == CHOOSE i \in 1..Len(Alphabet) : Alphabet[i] = ch

\* Ord of String, RoomId and UserId: byte-wise lexicographic.
RECURSIVE StrLess(_, _)
StrLess(a, b) ==
    IF Len(b) = 0 THEN FALSE
    ELSE IF Len(a) = 0 THEN TRUE
    ELSE IF Head(a) = Head(b) THEN StrLess(Tail(a), Tail(b))
    ELSE Rank(Head(a)) < Rank(Head(b))

\* Order of the flattened key of a nested map: outer key first.
RECURSIVE KeyLess(_, _)
KeyLess(k1, k2) ==
    IF Len(k2) = 0 THEN FALSE
    ELSE IF Len(k1) = 0 THEN TRUE
    ELSE IF Head(k1) = Head(k2) THEN KeyLess(Tail(k1), Tail(k2))
    ELSE StrLess(Head(k1), Head(k2))

\* The map key of an entry of the given field of StateChanges.
EntryKey(field, e) ==
    CASE field = "account_data" -> <<e.event_type>>
      [] field = "presence" -> <<e.sender>>
      [] field \in {"room_infos", "invited_room_info"} -> <<e.room_id>>
      [] field \in {"members", "stripped_members"} -> <<e.room, e.user>>
      [] field = "room_account_data" -> <<e.room, e.event_type>>
      [] field \in {"state", "stripped_state"} -> <<e.room, e.event_type, e.state_key>>

\* The value an entry holds.
EntryVal(field, e) ==
    IF field \in {"presence", "room_infos", "invited_room_info"} THEN e ELSE e.event

\* BTreeMap::insert: the entry takes the place of the one with an equal key,
\* or its place in key order.
BTreeInsert(m, field, e) ==
    LET k == EntryKey(field, e)
        below == SelectSeq(m, LAMBDA x : KeyLess(EntryKey(field, x), k))
        above == SelectSeq(m, LAMBDA x : KeyLess(k, EntryKey(field, x)))
    IN  below \o <<e>> \o above

\* The tree, the key and the bytes save_changes writes for a logical key of
\* a field.
FieldTree(field) ==
    CASE field = "state" -> "room_state"
      [] field = "stripped_state" -> "stripped_room_state"
      [] field = "room_infos" -> "room_info"
      [] field = "invited_room_info" -> "stripped_room_info"
      [] OTHER -> field

FieldKey(field, k) ==
    CASE Len(k) = 1 -> k[1]
      [] Len(k) = 2 -> MemberKey(k[1], k[2])
      [] OTHER -> StateKey(k[1], k[2], k[3])

FieldBytes(field, v) ==
    CASE field \in {"account_data", "room_account_data"} -> ToVecBasic(v)
      [] field = "presence" -> ToVecPresence(v)
      [] field \in {"room_infos", "invited_room_info"} -> ToVecRoomInfo(v)
      [] field \in {"members", "stripped_members"} -> ToVecMember(v)
      [] OTHER -> ToVecState(v)

\* The caller is building a Change Set.
Building == pc = "idle" /\ calls = 0 /\ Len(added) < MaxAdds

\* One add_* call: the entry goes into the field's map.
AddEntry(field, e) ==
    /\ Building
    /\ batch' = [batch EXCEPT ![field] = BTreeInsert(@, field, e)]
    /\ added' = Append(added, [field |-> field, key |-> EntryKey(field, e),
                               val |-> EntryVal(field, e)])
    /\ UNCHANGED <<store, pc, changes, todo, staged, calls, pre, last, retry, repeat, rdfail>>
    /\ UNCHANGED <<durVars, concVars, iter, filt>>

add_presence_event(event) == AddEntry("presence", event)

add_room(room) == AddEntry("room_infos", room)

add_account_data(event) ==
    AddEntry("account_data", [event_type |-> event.type, event |-> event])

add_room_account_data(room_id, event) ==
    AddEntry("room_account_data", RoomDataEntry(room_id, event))

add_stripped_state_event(room_id, event) ==
    AddEntry("stripped_state", StateEntry(room_id, event))

add_stripped_member(room_id, event) ==
    /\ IsUserId(event.state_key)
    /\ AddEntry("stripped_members", MemberEntry(room_id, event))

add_state_event(room_id, event) == AddEntry("state", StateEntry(room_id, event))

\* save_changes(&batch)
SaveBatch ==
    /\ calls = 0
    /\ Len(added) > 0
    /\ SaveChangesBegin(batch)

NextBatch ==
    \/ \E u \in Users, p \in {"online", "offline"} : add_presence_event(PresenceEv(u, p))
    \/ \E b \in {Body1, Body2} : add_room(RoomInfo(R1, b))
    \/ \E b \in {Body1, Body2} : add_account_data(BasicEvent(TypeT, b))
    \/ \E x \in {<<R1, TypeCT>>, <<R2, TypeT>>}, b \in {Body1, Body2} :
           add_room_account_data(x[1], BasicEvent(x[2], b))
    \/ \E b \in {Body1, Body2} :
           add_stripped_state_event(R2, StateEvent(TypeT, KeyEmpty, b))
    \/ \E m \in {"invite", "join"} : add_stripped_member(R2, MemberEvent(U1, m, Ev1))
    \/ \E x \in {<<TypeT, KeyK>>, <<TypeTK, KeyEmpty>>}, b \in {Body1, Body2} :
           add_state_event(R1, StateEvent(x[1], x[2], b))
    \/ SaveBatch
    \/ TxWrite
    \/ TxCommit
    \/ Flush

SpecBatch == Init /\ [][NextBatch]_vars

----------------------------------------------------------------------------
(* Consuming the stream of get_joined_user_ids / get_invited_user_ids      *)
(* while save_changes calls commit.                                        *)

\* The least key of the scan that is greater than the last one returned.
Successor(keys, lo) ==
    LET after == {k \in keys : lo = None \/ StrLess(lo[1], k)}
    IN  IF after = {} THEN None
        ELSE Some(CHOOSE k \in after : \A x \in after : x = k \/ StrLess(k, x))

\* get_joined_user_ids / get_invited_user_ids return the stream: scan_prefix
\* builds the iterator and reads nothing yet.
StreamOpen(tree, room) ==
    /\ ~iter.open
    /\ iter' = [NoIter EXCEPT !.open = TRUE, !.tree = tree, !.room = room,
                              !.views = {UserIdsUnder(store[tree], room)}]
    /\ UNCHANGED <<store, pc, changes, todo, staged, calls, pre, last, retry, repeat, rdfail>>
    /\ UNCHANGED <<durVars, concVars, batchVars, filt>>

\* The outcome of one next(): the key found in the node it read, if any.
Step(it, node, found) ==
    IF found = None THEN [it EXCEPT !.done = TRUE, !.cache = node]
    ELSE [it EXCEPT !.lo = found, !.cache = node,
                    !.yielded = @ \cup {node[found[1]]}]

\* next() reads the leaf for its position from the tree as it is now: the
\* first call, and every call that has used up the cached leaf.
StreamNextFromTree ==
    /\ iter.open /\ ~iter.done
    /\ LET node == store[iter.tree]
       IN  iter' = Step(iter, node, Successor(ScanPrefix(node, iter.room), iter.lo))
    /\ rdfail' = (rdfail \/ user_ids_panics(store[iter.tree], iter.room))
    /\ UNCHANGED <<store, pc, changes, todo, staged, calls, pre, last, retry, repeat>>
    /\ UNCHANGED <<durVars, concVars, batchVars, filt>>

\* next() is served by the leaf cached by the call before, as that leaf was
\* when it was read.
StreamNextFromCache ==
    /\ iter.open /\ ~iter.done /\ iter.lo # None
    /\ iter' = Step(iter, iter.cache,
                    Successor(ScanPrefix(iter.cache, iter.room), iter.lo))
    /\ UNCHANGED <<store, pc, changes, todo, staged, calls, pre, last, retry, repeat, rdfail>>
    /\ UNCHANGED <<durVars, concVars, batchVars, filt>>

StreamChangeSets ==
    PairMemberChanges
    \cup {WithMembers(<<MemberEntry(R1, MemberEvent(u, m, Ev1))>>) :
              u \in Users, m \in {"join", "invite"}}

NextStream ==
    \/ \E t \in {"joined_user_ids", "invited_user_ids"} : StreamOpen(t, R1)
    \/ StreamNextFromTree
    \/ StreamNextFromCache
    \/ \E c \in StreamChangeSets : SaveChangesBegin(c)
    \/ TxWrite
    \/ TxCommit
    \/ Flush

SpecStream == Init /\ [][NextStream]_vars

----------------------------------------------------------------------------
(* Invitation previews next to the authoritative data of the same room.    *)

StrippedChangeSets ==
    {[DefaultChanges EXCEPT !.stripped_members =
          <<MemberEntry(R1, MemberEvent(U1, m, Ev2))>>] : m \in {"invite", "join"}}
    \cup {[DefaultChanges EXCEPT
               !.invited_room_info = <<RoomInfo(R1, Body2)>>,
               !.stripped_members = <<MemberEntry(R1, MemberEvent(U1, "join", Ev1)),
                                      MemberEntry(R1, MemberEvent(U2, "invite", Ev1))>>,
               !.stripped_state = <<StateEntry(R1, StateEvent(TypeT, KeyEmpty, Body2))>>]}

AuthoritativeChangeSets ==
    {WithMembers(<<MemberEntry(R1, MemberEvent(U1, m, Ev1))>>) :
        m \in {"join", "invite", "leave"}}
    \cup {[DefaultChanges EXCEPT
               !.members = <<MemberEntry(R1, MemberEvent(U2, "join", Ev1))>>,
               !.state = <<StateEntry(R1, StateEvent(TypeT, KeyEmpty, Body1))>>,
               !.room_infos = <<RoomInfo(R1, Body1)>>]}

NextStripped ==
    \/ \E c \in StrippedChangeSets \cup AuthoritativeChangeSets : SaveChangesBegin(c)
    \/ TxWrite
    \/ TxFault
    \/ TxCommit
    \/ Flush

SpecStripped == Init /\ [][NextStripped]_vars

----------------------------------------------------------------------------
(* The filter cache next to the session record, in the session tree.       *)

\* Filter ids are &str: any text, the empty one included.
AllFilterIds == {<<>>, <<"F">>, <<"G">>}

FilterChangeSets ==
    {DefaultChanges} \cup {FromSession(s) : s \in Sessions} \cup MixedChanges

NextFilter ==
    \/ \E n \in AllFilterNames, id \in AllFilterIds : SaveFilter(n, id)
    \/ \E c \in FilterChangeSets : SaveChangesBegin(c)
    \/ TxWrite
    \/ TxFault
    \/ TxCommit
    \/ Flush
    \/ \E q \in {r \in ReadRequests : r[1] = "get_session"} : Read(q)

SpecFilter == Init /\ [][NextFilter]_vars

----------------------------------------------------------------------------
(* Properties *)

IsMembership(m, kind) == m # None /\ m[1].membership = kind

\* C1: for every (room, user), the user is yielded by get_joined_user_ids
\* iff the most recently committed MemberEvent of the pair is Join, by
\* get_invited_user_ids iff it is Invite, and never by both.
C1_MembershipIndex ==
    \A p \in MemberIds :
        LET joined == p[2] \in get_joined_user_ids(store, p[1])
            invited == p[2] \in get_invited_user_ids(store, p[1])
        IN  /\ joined <=> IsMembership(last.members[p], "join")
            /\ invited <=> IsMembership(last.members[p], "invite")
            /\ ~(joined /\ invited)

\* C2: the writes of one Change Set become visible together: while the
\* transaction runs the trees hold none of them, and once it has committed
\* they hold all of them.
C2_AtomicVisibility ==
    /\ pc = "tx" => store = pre
    /\ pc \in {"flush", "idle"} => store = ApplyBatch(pre, Ops(changes))

\* The closure has executed several writes of a batch that spans regions.
C2_Witness ==
    pc = "tx" /\ changes \in MixedChanges /\ Len(staged) >= 4 /\ calls = 2

\* C3: a save_changes that fails part-way leaves every tree as it was, and
\* the same Change Set saved again gives the state the first attempt would
\* have given.
C3_FaultAtomicity ==
    /\ pc = "failed" => store = pre
    /\ (retry /\ pc \in {"flush", "idle"}) => store = ApplyBatch(pre, Ops(changes))

\* A batch of several writes failed and was saved again.
C3_Witness ==
    retry /\ pc = "flush" /\ Len(Ops(changes)) >= 4 /\ store # pre

\* C4: a query for a room yields only users whose index entry was written
\* for that room, also when one room id is a prefix of the other.
C4_PrefixIsolation ==
    \A r1 \in Rooms, r2 \in Rooms :
        (r1 # r2 /\ (IsPrefix(r1, r2) \/ IsPrefix(r2, r1))) =>
            \A u \in Users :
                /\ u \in get_joined_user_ids(store, r1)
                       => MemberKey(r1, u) \in DOMAIN store.joined_user_ids
                /\ u \in get_invited_user_ids(store, r1)
                       => MemberKey(r1, u) \in DOMAIN store.invited_user_ids

\* C5: distinct logical identities never share a stored key: a point read
\* for one identity returns that identity's record, no commit for another
\* identity overwrites it, and a room account data key holds the event of
\* its own type.
C5_KeysInjective ==
    /\ \A p \in StateIds :
           LET e == get_state_event(store, p[1], p[2], p[3])
           IN  /\ e # None => (e[1].type = p[2] /\ e[1].state_key = p[3])
               /\ last.state[p] # None => e = last.state[p]
    /\ \A p \in MemberIds :
           LET e == get_member_event(store, p[1], p[2])
           IN  e # None => e[1].state_key = p[2]
    /\ \A r \in Rooms, t \in EventTypes :
           RoomDataKey(r, t) \in DOMAIN store.room_account_data
               => store.room_account_data[RoomDataKey(r, t)][2][2] = t

\* C6: the joined index holds the pair's key iff the stored member record
\* of the pair is Join, and the invited index iff it is Invite, in every
\* state a reader can see.
C6_IndexMatchesMembers ==
    \A p \in MemberIds :
        LET key == MemberKey(p[1], p[2])
            m == get_member_event(store, p[1], p[2])
        IN  /\ key \in DOMAIN store.joined_user_ids <=> IsMembership(m, "join")
            /\ key \in DOMAIN store.invited_user_ids <=> IsMembership(m, "invite")

\* U1 is joined in R1 and banned from R2, by two commits.
C6_Witness ==
    /\ get_member_event(store, R1, U1) = Some(MemberEvent(U1, "join", Ev2))
    /\ MemberKey(R1, U1) \in DOMAIN store.joined_user_ids
    /\ IsMembership(get_member_event(store, R2, U1), "ban")

\* C7: get_session returns the session of the most recent commit that
\* carried one; after a commit of StateChanges::from(s) it returns s.
C7_SessionRoundTrip ==
    /\ get_session(store) = last.session
    /\ \A s \in Sessions :
           (pc \in {"flush", "idle"} /\ changes = FromSession(s))
               => get_session(store) = Some(s)

\* Session2 was committed over Session1, next to a filter named "session".
C7_Witness ==
    /\ pc = "idle" /\ calls = 2
    /\ changes = FromSession(Session2)
    /\ get_session(pre) = Some(Session1)
    /\ get_session(store) = Some(Session2)
    /\ get_filter(store, SessionKey) # None

\* C8: get_member_event returns the most recently committed MemberEvent of
\* the pair, whatever its membership.
C8_MemberRoundTrip ==
    \A p \in MemberIds : get_member_event(store, p[1], p[2]) = last.members[p]

\* U1 left R1, where an earlier commit had joined it, and U2 is invited.
C8_Witness ==
    /\ get_member_event(store, R1, U1) = Some(MemberEvent(U1, "leave", Ev2))
    /\ get_member_event(store, R1, U2) # None
    /\ IsMembership(get_member_event(pre, R1, U1), "join")

\* C9: saving the same Change Set a second time, right after it was
\* committed, leaves every tree as the first commit left it.
C9_Idempotent ==
    (repeat /\ pc \in {"flush", "idle"}) => store = pre

\* A batch with a session, a member, a state event and a presence event
\* was committed twice in a row.
C9_Witness ==
    repeat /\ pc = "flush" /\ changes \in MixedChanges

\* C10: no read fails, and a point read returns a present value only if a
\* commit wrote its logical key.
C10_AbsenceIsValue ==
    /\ ~rdfail
    /\ get_session(store) # None => last.session # None
    /\ \A u \in Users : get_presence_event(store, u) # None => last.presence[u] # None
    /\ \A p \in StateIds :
           get_state_event(store, p[1], p[2], p[3]) # None => last.state[p] # None
    /\ \A p \in MemberIds :
           get_member_event(store, p[1], p[2]) # None => last.members[p] # None

\* C11: when save_changes has returned, its commit is flushed: the flushed
\* log position is at or past the call's, the flushed trees hold every
\* write of the batch, and so do the trees recovered after a crash.
C11_DurableOnReturn ==
    /\ ret.seq <= disk.seq
    /\ (ret.changes # None /\ disk.seq = ret.seq)
           => ApplyBatch(disk.trees, Ops(ret.changes[1])) = disk.trees
    /\ (ret.changes # None /\ pc = "idle" /\ seq = ret.seq)
           => ApplyBatch(store, Ops(ret.changes[1])) = store

\* A call returned, a second call was cut short by a crash, and the store
\* was reopened.
C11_Witness ==
    /\ pc = "idle" /\ calls = 2 /\ seq = 1 /\ ret.seq = 1
    /\ ret.changes # None /\ Len(Ops(ret.changes[1])) >= 4
    /\ changes = DefaultChanges

\* C12: two concurrent save_changes calls never have their transactions
\* running at the same time, the trees always equal the Change Sets applied
\* one after another in commit order, and each pair's index entries are the
\* ones implied by the pair's last committed member event.
C12_Serializable ==
    /\ ~(pc = "tx" /\ w2.pc = "tx")
    /\ store = serial
    /\ \A p \in MemberIds :
           LET key == MemberKey(p[1], p[2])
           IN  /\ key \in DOMAIN store.joined_user_ids
                      <=> IsMembership(last.members[p], "join")
               /\ key \in DOMAIN store.invited_user_ids
                      <=> IsMembership(last.members[p], "invite")

\* Both callers committed a member event of (R1, U1), the first Join and the
\* second Invite; the second one's commit came last.
C12_Witness ==
    /\ pc = "flush" /\ w2.pc = "flush"
    /\ changes = WithMembers(<<MemberEntry(R1, MemberEvent(U1, "join", Ev1))>>)
    /\ IsMembership(last.members[<<R1, U1>>], "invite")
    /\ MemberKey(R1, U1) \in DOMAIN store.invited_user_ids
    /\ MemberKey(R1, U1) \notin DOMAIN store.joined_user_ids

\* C13 as stated: every change of a tree's content is the commit of a
\* save_changes transaction.
C13_OnlySaveChanges ==
    [][store' # store => (pc = "tx" /\ pc' = "flush")]_vars

\* C13 amended: every change of a tree's content is either the commit of a
\* save_changes transaction or a save_filter, which leaves every tree but
\* session as it was and in session changes only keys that start with
\* "filter"; no read changes a tree.
C13_OnlySaveChangesOrFilter ==
    [][store' # store =>
          \/ pc = "tx" /\ pc' = "flush"
          \/ /\ pc' = pc
             /\ \A t \in TreeNames \ {"session"} : store'[t] = store[t]
             /\ \A k \in (DOMAIN store.session) \cup (DOMAIN store'.session) :
                    TreeGet(store'.session, k) # TreeGet(store.session, k)
                        => IsPrefix(FilterPrefix, k)]_vars

\* A filter was saved before any save_changes was called: the session tree
\* holds it, next to nothing else.
C13_Witness ==
    /\ calls = 0
    /\ DOMAIN store.session = {FilterKey(SessionKey)}
    /\ get_filter(store, SessionKey) = Some(<<"F">>)
\* C14: after any sequence of add_* calls each logical key is in the batch
\* once, with the value of the last call for that key, and the batch holds
\* nothing else; once the batch is committed, each of those keys holds that
\* value in its region.
C14_LastWriteWins ==
    /\ \A i \in 1..Len(added) :
           LET f == added[i].field
               k == added[i].key
               j == LastIndex({n \in 1..Len(added) :
                                  added[n].field = f /\ added[n].key = k})
               at == {n \in 1..Len(batch[f]) : EntryKey(f, batch[f][n]) = k}
           IN  /\ Cardinality(at) = 1
               /\ \A n \in at : EntryVal(f, batch[f][n]) = added[j].val
    /\ \A f \in DOMAIN DefaultChanges \ {"session"} :
           \A n \in 1..Len(batch[f]) :
               \E i \in 1..Len(added) :
                   added[i].field = f /\ added[i].key = EntryKey(f, batch[f][n])
    /\ (pc \in {"flush", "idle"} /\ calls = 1) =>
           \A i \in 1..Len(added) :
               LET f == added[i].field
                   k == added[i].key
                   j == LastIndex({n \in 1..Len(added) :
                                      added[n].field = f /\ added[n].key = k})
               IN  TreeGet(store[FieldTree(f)], FieldKey(f, k))
                       = Some(FieldBytes(f, added[j].val))
\* C15: a commit changes what the joined and invited queries yield only for
\* the (room, user) pairs it carries a member event for; committing U1 as
\* Join in R1 and Invite in R2 on a store without members gives
\* joined(R1) = {U1}, invited(R1) = {}, joined(R2) = {}, invited(R2) = {U1},
\* and committing U1 as Leave in R1 after that empties joined(R1) and
\* invited(R1) and leaves invited(R2) = {U1}.
C15_PerPairIndependence ==
    pc \in {"flush", "idle"} =>
        /\ \A p \in MemberIds :
               (\A i \in 1..Len(changes.members) :
                    <<changes.members[i].room, changes.members[i].user>> # p)
               => /\ p[2] \in get_joined_user_ids(store, p[1])
                         <=> p[2] \in get_joined_user_ids(pre, p[1])
                  /\ p[2] \in get_invited_user_ids(store, p[1])
                         <=> p[2] \in get_invited_user_ids(pre, p[1])
        /\ (/\ changes = WithMembers(<<MemberEntry(R1, MemberEvent(U1, "join", Ev1)),
                                       MemberEntry(R2, MemberEvent(U1, "invite", Ev1))>>)
            /\ pre.members = EmptyTree)
               => /\ get_joined_user_ids(store, R1) = {U1}
                  /\ get_invited_user_ids(store, R1) = {}
                  /\ get_joined_user_ids(store, R2) = {}
                  /\ get_invited_user_ids(store, R2) = {U1}
        /\ (/\ changes = WithMembers(<<MemberEntry(R1, MemberEvent(U1, "leave", Ev1))>>)
            /\ DOMAIN pre.joined_user_ids = {MemberKey(R1, U1)}
            /\ DOMAIN pre.invited_user_ids = {MemberKey(R2, U1)})
               => /\ get_joined_user_ids(store, R1) = {}
                  /\ get_invited_user_ids(store, R1) = {}
                  /\ get_invited_user_ids(store, R2) = {U1}
\* C16: after a commit every logical key of the Change Set reads back the
\* Change Set's value and every other logical key reads back what it read
\* before; without a session in the Change Set the stored session is as
\* before, and an empty Change Set leaves every tree as it was.
C16_WritesOnlyChangeSet ==
    pc \in {"flush", "idle"} =>
        /\ \A i \in 1..Len(changes.state) :
               LET e == changes.state[i]
               IN  get_state_event(store, e.room, e.event_type, e.state_key)
                       = Some(e.event)
        /\ \A i \in 1..Len(changes.members) :
               LET e == changes.members[i]
               IN  get_member_event(store, e.room, e.user) = Some(e.event)
        /\ \A i \in 1..Len(changes.presence) :
               get_presence_event(store, changes.presence[i].sender)
                   = Some(changes.presence[i])
        /\ changes.session # None => get_session(store) = changes.session
        /\ \A p \in StateIds :
               (\A i \in 1..Len(changes.state) :
                    <<changes.state[i].room, changes.state[i].event_type,
                      changes.state[i].state_key>> # p)
               => get_state_event(store, p[1], p[2], p[3])
                      = get_state_event(pre, p[1], p[2], p[3])
        /\ \A p \in MemberIds :
               (\A i \in 1..Len(changes.members) :
                    <<changes.members[i].room, changes.members[i].user>> # p)
               => get_member_event(store, p[1], p[2]) = get_member_event(pre, p[1], p[2])
        /\ \A u \in Users :
               (\A i \in 1..Len(changes.presence) : changes.presence[i].sender # u)
               => get_presence_event(store, u) = get_presence_event(pre, u)
        /\ changes.session = None => get_session(store) = get_session(pre)
        /\ changes = DefaultChanges => store = pre
\* C17: the user ids a stream has yielded when it ends are the room's joined
\* (resp. invited) set of one committed state among those the store went
\* through since the stream was created.
C17_StreamIsolated ==
    (iter.open /\ iter.done) => iter.yielded \in iter.views
\* C18: a commit of a Change Set with nothing but stripped members, stripped
\* state and invited room infos leaves members, both indices, room_state and
\* room_info as they were, and a commit of a Change Set without any of the
\* three leaves the stripped regions as they were.
C18_StrippedApart ==
    pc \in {"flush", "idle"} =>
        /\ (/\ changes.session = None
            /\ \A f \in {"members", "state", "room_infos", "account_data",
                         "room_account_data", "presence"} : changes[f] = <<>>)
               => \A t \in {"members", "joined_user_ids", "invited_user_ids",
                            "room_state", "room_info"} : store[t] = pre[t]
        /\ (\A f \in {"stripped_members", "stripped_state", "invited_room_info"} :
                changes[f] = <<>>)
               => \A t \in {"stripped_members", "stripped_room_state",
                            "stripped_room_info"} : store[t] = pre[t]

\* A stripped Join of (R1, U1) was committed over a store in which U1 is
\* invited to R1.
C18_Witness ==
    /\ pc = "flush"
    /\ changes = [DefaultChanges EXCEPT !.stripped_members =
                      <<MemberEntry(R1, MemberEvent(U1, "join", Ev2))>>]
    /\ IsMembership(get_member_event(pre, R1, U1), "invite")
    /\ MemberKey(R1, U1) \in DOMAIN store.stripped_members
    /\ MemberKey(R1, U1) \in DOMAIN store.invited_user_ids
\* C19: get_filter(name) is the id last passed to save_filter for that name,
\* or absent if there was none, whatever save_changes committed; and
\* get_session is the session last committed, whatever filters were saved,
\* under the names "" and "session" too; no get_session fails.
C19_FilterAndSession ==
    /\ \A n \in AllFilterNames : get_filter(store, n) = filt[n]
    /\ get_session(store) = last.session
    /\ ~rdfail

\* Filters were saved under "" and under "session", with different ids, and
\* two sessions were committed one after the other.
C19_Witness ==
    /\ pc = "idle" /\ calls = 2
    /\ filt[<<>>] = Some(<<"F">>)
    /\ filt[SessionKey] = Some(<<"G">>)
    /\ get_session(pre) = Some(Session1)
    /\ get_session(store) = Some(Session2)
\* C20: every save_changes call that was started, by either caller, commits,
\* flushes and returns, whatever the other caller and the readers do.
C20_RunsToCompletion ==
    /\ (pc = "wait") ~> (pc = "flush")
    /\ (pc = "flush") ~> (pc = "idle")
    /\ (w2.pc = "wait") ~> (w2.pc = "flush")
    /\ (w2.pc = "flush") ~> (w2.pc = "idle")

\* The first caller waits for the locks while the second one's transaction
\* has executed some of its writes.
C20_Witness ==
    pc = "wait" /\ w2.pc = "tx" /\ Len(w2.staged) > 0 /\ Len(w2.todo) > 0
============================================================================
